---- MODULE Spec2Model ----
(***************************************************************************)
(* Verification model of the evaluation utilities of this repository:      *)
(*   - StreamDemux, the trailing-JSON stream splitter (one session),       *)
(*   - get_answers, the line-fragment stream reader (src/parse_json.py),   *)
(*   - ToolCallAccuracy.evaluate, the tool-call scorer (src/tool_call.py), *)
(*   - chat, the /chat endpoint and its message history (src/rag.py).      *)
(* The components share no state; each has its own specification.         *)
(***************************************************************************)
EXTENDS Integers, Sequences, FiniteSets, TLC

VARIABLES
    \* ---- StreamDemux session and its driver
    input,            \* the whole character stream the caller will deliver
    pos,              \* number of characters of input already passed to feed()
    pc,               \* "feeding" until finalize() was called, then "done"
    mode,             \* "CollectingText" or "CollectingMetadata"
    text_buffer,      \* characters classified as text
    metadata_buffer,  \* characters of the metadata object in progress
    brace_depth,      \* nesting depth of the metadata object
    in_string,        \* inside a JSON string literal of the metadata
    escape_pending,   \* the previous metadata character was an unescaped backslash
    prev_char,        \* last character consumed (a virtual newline at the start)
    terminal,         \* the metadata object is complete; no further input is accepted
    result,           \* (text, metadata) once terminal
    returned,         \* what finalize() returned
    depth_seen,       \* history: brace_depth has been at least 1
    cut_in_metadata,  \* history: a non-empty chunk began inside the metadata object
    \* ---- ToolCallAccuracy, one call of evaluate()
    strict_order,     \* the evaluator's field, set by the constructor
    predicted,        \* the caller's predicted list
    reference,        \* the caller's reference list
    epc,              \* "call" before evaluate() ran, "returned" after
    eval_result,      \* the ToolCallAccuracyResult returned, with the warning flag
    metric_score,     \* what ToolCallAccuracyMetric._evaluate returns on the same input
    arg_scores,       \* evaluate's local list arg_scores when it returned
    coverage,         \* evaluate's local coverage when it returned
    \* ---- get_answers, one call
    seen,             \* history: the lines r.iter_lines() has yielded so far
    collected,        \* the list of extracted text fragments
    raw_lines,        \* the list of non-blank stripped lines
    lpc,              \* "reading" in the loop, then "returned" or "raised"
    answer,           \* the returned text
    \* ---- the /chat endpoint (src/rag.py)
    served,           \* history: the /chat requests answered so far
    store,            \* the store dict of the chain built for the latest request
    history,          \* the messages the latest request's prompt got as history
    cpc               \* "idle" before the first request, then "served"

demuxVars == << input, pos, pc, mode, text_buffer, metadata_buffer, brace_depth,
                in_string, escape_pending, prev_char, terminal, result, returned,
                depth_seen, cut_in_metadata >>

scorerVars ==
    << strict_order, predicted, reference, epc, eval_result, metric_score, arg_scores,
       coverage >>

linesVars == << seen, collected, raw_lines, lpc, answer >>

chatVars == << served, store, history, cpc >>

vars == << demuxVars, scorerVars, linesVars, chatVars >>

\* ------------------------------------------------------------------ bounds
MaxLen == 5
\* Largest len(predicted) + len(reference) of a scored pair of lists.
MaxCalls == 4
\* Largest number of lines of a response body.
MaxLines == 3
\* /chat requests in one run.
MaxRequests == 4

\* ------------------------------------------------------------- characters
LBrace == "{"
RBrace == "}"
Quote == "\""
Backslash == "\\"
Newline == "\n"
Space == " "

\* Characters of the exhaustively enumerated streams.
Alphabet == { LBrace, RBrace, Quote, Backslash, Newline, "a" }

\* All characters that occur in any modelled stream.
Chars == Alphabet \cup { Space, ":", ",", "k", "1" }

\* ------------------------------------------------- JSON parsing (json.loads)
\* A parsed JSON value: None (JSON null), a boolean, a string, a number, a list
\* or a dict (an insertion-ordered list of members, a later duplicate key
\* overwriting the earlier value). A text is a sequence of characters; a word
\* that the model never splits (a key, the marker "data:") is one element.
NullJson == [t |-> "null", s |-> << >>, m |-> << >>]
JBool(word) == [t |-> "bool", s |-> << word >>, m |-> << >>]
JStr(chars) == [t |-> "str", s |-> chars, m |-> << >>]
JNum(chars) == [t |-> "num", s |-> chars, m |-> << >>]
JObj(members) == [t |-> "obj", s |-> << >>, m |-> members]
JArr(elements) == [t |-> "arr", s |-> << >>, m |-> elements]

ParseFail == [ok |-> FALSE, pos |-> 0, val |-> NullJson]
ParseOk(p, v) == [ok |-> TRUE, pos |-> p, val |-> v]

JsonWhitespace == { Space, Newline }
ControlChars == { Newline }
Digits == { "1" }
\* Characters a backslash may escape inside a string (of those in Chars).
Escapable == { Quote, Backslash }

RECURSIVE SkipWs(_, _)
SkipWs(b, i) ==
    IF i <= Len(b) /\ b[i] \in JsonWhitespace THEN SkipWs(b, i + 1) ELSE i

\* The scan of a string literal from just after its opening quote.
RECURSIVE StrScan(_, _, _)
StrScan(b, j, acc) ==
    IF j > Len(b) THEN ParseFail
    ELSE IF b[j] = Quote THEN ParseOk(j + 1, JStr(acc))
    ELSE IF b[j] = Backslash THEN
        IF j + 1 <= Len(b) /\ b[j + 1] \in Escapable
        THEN StrScan(b, j + 2, Append(acc, b[j + 1]))
        ELSE ParseFail
    ELSE IF b[j] \in ControlChars THEN ParseFail
    ELSE StrScan(b, j + 1, Append(acc, b[j]))

RECURSIVE NumScan(_, _, _)
NumScan(b, j, acc) ==
    IF j <= Len(b) /\ b[j] \in Digits
    THEN NumScan(b, j + 1, Append(acc, b[j]))
    ELSE ParseOk(j, JNum(acc))

\* dict assignment d[key] = val on an insertion-ordered member list.
PutMember(members, key, val) ==
    IF \E n \in 1..Len(members) : members[n].k = key
    THEN [n \in 1..Len(members) |->
             IF members[n].k = key THEN [k |-> key, v |-> val] ELSE members[n]]
    ELSE Append(members, [k |-> key, v |-> val])

RECURSIVE ParseValue(_, _)
RECURSIVE ParseMembers(_, _, _)
RECURSIVE ParseElements(_, _, _)

\* After an element of a list: the closing bracket or a comma and the rest.
ElementEnd(b, e, elements) ==
    IF e > Len(b) THEN ParseFail
    ELSE IF b[e] = "]" THEN ParseOk(e + 1, JArr(elements))
    ELSE IF b[e] = "," THEN ParseElements(b, SkipWs(b, e + 1), elements)
    ELSE ParseFail

AfterElement(b, v, acc) ==
    IF ~v.ok THEN ParseFail
    ELSE ElementEnd(b, SkipWs(b, v.pos), Append(acc, [k |-> << >>, v |-> v.val]))

ParseElements(b, j, acc) == AfterElement(b, ParseValue(b, j), acc)

ArrayBody(b, j) ==
    IF j > Len(b) THEN ParseFail
    ELSE IF b[j] = "]" THEN ParseOk(j + 1, JArr(<< >>))
    ELSE ParseElements(b, j, << >>)

ParseArray(b, i) == ArrayBody(b, SkipWs(b, i + 1))

\* After a member of a dict: the closing brace or a comma and the rest.
MemberEnd(b, e, members) ==
    IF e > Len(b) THEN ParseFail
    ELSE IF b[e] = RBrace THEN ParseOk(e + 1, JObj(members))
    ELSE IF b[e] = "," THEN ParseMembers(b, SkipWs(b, e + 1), members)
    ELSE ParseFail

AfterMemberValue(b, key, v, acc) ==
    IF ~v.ok THEN ParseFail
    ELSE MemberEnd(b, SkipWs(b, v.pos), PutMember(acc, key.val.s, v.val))

AfterKeyWs(b, key, c, acc) ==
    IF c > Len(b) \/ b[c] # ":" THEN ParseFail
    ELSE AfterMemberValue(b, key, ParseValue(b, SkipWs(b, c + 1)), acc)

AfterKey(b, key, acc) ==
    IF ~key.ok THEN ParseFail ELSE AfterKeyWs(b, key, SkipWs(b, key.pos), acc)

ParseMembers(b, j, acc) ==
    IF j > Len(b) \/ b[j] # Quote THEN ParseFail
    ELSE AfterKey(b, StrScan(b, j + 1, << >>), acc)

ObjectBody(b, j) ==
    IF j > Len(b) THEN ParseFail
    ELSE IF b[j] = RBrace THEN ParseOk(j + 1, JObj(<< >>))
    ELSE ParseMembers(b, j, << >>)

ParseObject(b, i) == ObjectBody(b, SkipWs(b, i + 1))

ParseValue(b, i) ==
    IF i > Len(b) THEN ParseFail
    ELSE IF b[i] = Quote THEN StrScan(b, i + 1, << >>)
    ELSE IF b[i] = LBrace THEN ParseObject(b, i)
    ELSE IF b[i] = "[" THEN ParseArray(b, i)
    ELSE IF b[i] \in Digits THEN NumScan(b, i, << >>)
    ELSE IF b[i] = "null" THEN ParseOk(i + 1, NullJson)
    ELSE IF b[i] \in { "true", "false" } THEN ParseOk(i + 1, JBool(b[i]))
    ELSE ParseFail

\* json.loads(b): one value, whitespace allowed around it, nothing after it.
WholeValue(b, v) == IF v.ok /\ SkipWs(b, v.pos) = Len(b) + 1 THEN v ELSE ParseFail

JsonLoads(b) == WholeValue(b, ParseValue(b, SkipWs(b, 1)))

\* Removal of leading and trailing whitespace.
RECURSIVE TrimLeft(_)
TrimLeft(b) ==
    IF b # << >> /\ Head(b) \in JsonWhitespace THEN TrimLeft(Tail(b)) ELSE b

RECURSIVE TrimRight(_)
TrimRight(b) ==
    IF b # << >> /\ b[Len(b)] \in JsonWhitespace
    THEN TrimRight(SubSeq(b, 1, Len(b) - 1))
    ELSE b

Trim(b) == TrimRight(TrimLeft(b))

\* ------------------------------------------------------------ StreamDemux
NoMetadata == [kind |-> "none", raw |-> << >>, json |-> NullJson]
RawMetadata(b) == [kind |-> "raw", raw |-> b, json |-> NullJson]
ParsedMetadata(v) == [kind |-> "parsed", raw |-> << >>, json |-> v]

NoResult == [set |-> FALSE, text |-> << >>, metadata |-> NoMetadata]
MkResult(t, md) == [set |-> TRUE, text |-> t, metadata |-> md]

\* Variant: a block that does not parse is dropped instead of kept raw.
CompleteMetadataDropsRaw(buf) ==
    LET v == JsonLoads(buf)
    IN  IF v.ok THEN ParsedMetadata(v.val) ELSE NoMetadata

\* The metadata of a depth-balanced block: parsed, or the raw trimmed string.
CompleteMetadata(buf) ==
    LET v == JsonLoads(buf)
    IN  IF v.ok THEN ParsedMetadata(v.val) ELSE RawMetadata(Trim(buf))

InitSession ==
    [ mode |-> "CollectingText", text_buffer |-> << >>, metadata_buffer |-> << >>,
      brace_depth |-> 0, in_string |-> FALSE, escape_pending |-> FALSE,
      prev_char |-> Newline, terminal |-> FALSE, result |-> NoResult,
      depth_seen |-> FALSE ]

\* Variant: any opening brace starts the metadata, anchored or not.
StartsMetadataUnanchored(s, c) == c = LBrace

\* A character starts the metadata object.
StartsMetadata(s, c) == c = LBrace /\ s.prev_char = Newline

\* One character in CollectingText mode.
TextStep(s, c) ==
    IF StartsMetadata(s, c)
    THEN [s EXCEPT !.mode = "CollectingMetadata", !.metadata_buffer = << c >>,
                   !.brace_depth = 1, !.in_string = FALSE, !.escape_pending = FALSE,
                   !.prev_char = c]
    ELSE [s EXCEPT !.text_buffer = Append(@, c), !.prev_char = c]

\* Variant: no escape tracking, every quote toggles the string state.
StringScanNoEscape(s, c) ==
    IF c = Quote
    THEN [in_string |-> ~s.in_string, escape_pending |-> FALSE]
    ELSE [in_string |-> s.in_string, escape_pending |-> FALSE]

\* String-literal scanning of one metadata character: the new
\* (in_string, escape_pending).
StringScan(s, c) ==
    IF s.in_string
    THEN IF s.escape_pending THEN [in_string |-> TRUE, escape_pending |-> FALSE]
         ELSE IF c = Backslash THEN [in_string |-> TRUE, escape_pending |-> TRUE]
         ELSE IF c = Quote THEN [in_string |-> FALSE, escape_pending |-> FALSE]
         ELSE [in_string |-> TRUE, escape_pending |-> FALSE]
    ELSE IF c = Quote THEN [in_string |-> TRUE, escape_pending |-> FALSE]
         ELSE [in_string |-> FALSE, escape_pending |-> FALSE]

\* Variant: nesting is not counted, the first closing brace outside a string
\* ends the object.
DepthAfterIgnoresNesting(s, c) ==
    IF s.in_string THEN s.brace_depth
    ELSE IF c = RBrace THEN 0
    ELSE s.brace_depth

\* The brace depth after one metadata character.
DepthAfter(s, c) ==
    IF s.in_string THEN s.brace_depth
    ELSE IF c = LBrace THEN s.brace_depth + 1
    ELSE IF c = RBrace THEN s.brace_depth - 1
    ELSE s.brace_depth

\* Variant: the session becomes terminal only when the block parses.
MetadataStepTerminalOnParse(s, c) ==
    LET buf == Append(s.metadata_buffer, c)
        scan == StringScan(s, c)
        depth == DepthAfter(s, c)
        closed == depth = 0 /\ JsonLoads(buf).ok
    IN  [s EXCEPT !.metadata_buffer = buf,
                  !.in_string = scan.in_string,
                  !.escape_pending = scan.escape_pending,
                  !.brace_depth = depth,
                  !.prev_char = c,
                  !.terminal = closed,
                  !.result = IF closed
                             THEN MkResult(s.text_buffer, CompleteMetadata(buf))
                             ELSE @]

\* One character in CollectingMetadata mode.
MetadataStep(s, c) ==
    LET buf == Append(s.metadata_buffer, c)
        scan == StringScan(s, c)
        depth == DepthAfter(s, c)
        closed == depth = 0
    IN  [s EXCEPT !.metadata_buffer = buf,
                  !.in_string = scan.in_string,
                  !.escape_pending = scan.escape_pending,
                  !.brace_depth = depth,
                  !.prev_char = c,
                  !.terminal = closed,
                  !.result = IF closed
                             THEN MkResult(s.text_buffer, CompleteMetadata(buf))
                             ELSE @]

\* Variant: a newline-anchored opening brace is a metadata candidate in either
\* mode, so it restarts the metadata object.
StepReentrant(s, c) ==
    IF s.terminal THEN s
    ELSE IF s.mode = "CollectingText" \/ StartsMetadata(s, c) THEN TextStep(s, c)
    ELSE MetadataStep(s, c)

\* One character of a chunk; a terminal session accepts no further input.
Step(s, c) ==
    IF s.terminal THEN s
    ELSE IF s.mode = "CollectingText" THEN TextStep(s, c)
    ELSE MetadataStep(s, c)

\* Step, with the history field depth_seen kept up to date.
StepH(s, c) ==
    LET t == Step(s, c)
    IN  [t EXCEPT !.depth_seen = s.depth_seen \/ t.brace_depth >= 1]

RECURSIVE FeedChars(_, _)
FeedChars(s, chunk) ==
    IF chunk = << >> THEN s ELSE FeedChars(StepH(s, Head(chunk)), Tail(chunk))

\* Variant: prev_char is local to the call, each chunk starts from the virtual
\* newline again.
FeedChunkLocalPrev(s, chunk) == FeedChars([s EXCEPT !.prev_char = Newline], chunk)

\* feed(chunk): the characters of the chunk in order, on the session's state.
FeedChunk(s, chunk) == FeedChars(s, chunk)

\* Variant: a truncated metadata object is returned as raw metadata.
FinalizeResultKeepsPartial(s) ==
    IF s.terminal THEN s.result
    ELSE MkResult(s.text_buffer,
                  IF s.metadata_buffer = << >> THEN NoMetadata
                  ELSE RawMetadata(s.metadata_buffer))

\* finalize(): the result if terminal, else the text so far and no metadata.
FinalizeResult(s) ==
    IF s.terminal THEN s.result ELSE MkResult(s.text_buffer, NoMetadata)

\* The session object as a record of its fields.
Session ==
    [ mode |-> mode, text_buffer |-> text_buffer, metadata_buffer |-> metadata_buffer,
      brace_depth |-> brace_depth, in_string |-> in_string,
      escape_pending |-> escape_pending, prev_char |-> prev_char,
      terminal |-> terminal, result |-> result, depth_seen |-> depth_seen ]

SetSession(s) ==
    /\ mode' = s.mode
    /\ text_buffer' = s.text_buffer
    /\ metadata_buffer' = s.metadata_buffer
    /\ brace_depth' = s.brace_depth
    /\ in_string' = s.in_string
    /\ escape_pending' = s.escape_pending
    /\ prev_char' = s.prev_char
    /\ terminal' = s.terminal
    /\ result' = s.result
    /\ depth_seen' = s.depth_seen

\* The stream hello, newline, {"a":{"b":1}}, the word hello as one unit of text.
HelloStream ==
    << "hello", Newline, LBrace, Quote, "a", Quote, ":", LBrace, Quote, "b", Quote, ":",
       "1", RBrace, RBrace >>

\* Streams of the documented cases: nested braces after a text line, an escaped
\* quote inside a metadata string, a brace-balanced block that is not JSON,
\* braces inside a string followed by trailing input, a duplicate key.
LitmusStreams ==
    { << "a", Newline, LBrace, Quote, "a", Quote, ":", LBrace, Quote, "k", Quote, ":",
         "1", RBrace, RBrace >>,
      << LBrace, Quote, "a", Quote, ":", Quote, RBrace, Space, Backslash, Quote, "k",
         Backslash, Quote, LBrace, Quote, RBrace >>,
      << "a", Newline, LBrace, Quote, "a", Quote, ":", Space, RBrace >>,
      << "a", Newline, LBrace, Quote, "k", Quote, ":", Quote, RBrace, LBrace, Quote,
         RBrace, "a", Newline, LBrace >>,
      << LBrace, Quote, "a", Quote, ":", "1", ",", Space, Quote, "a", Quote, ":",
         Quote, "k", Quote, RBrace >>,
      HelloStream }

Streams == UNION { [1..n -> Alphabet] : n \in 0..MaxLen } \cup LitmusStreams

DemuxInit ==
    /\ input \in Streams
    /\ pos = 0
    /\ pc = "feeding"
    /\ returned = NoResult
    /\ mode = InitSession.mode
    /\ text_buffer = InitSession.text_buffer
    /\ metadata_buffer = InitSession.metadata_buffer
    /\ brace_depth = InitSession.brace_depth
    /\ in_string = InitSession.in_string
    /\ escape_pending = InitSession.escape_pending
    /\ prev_char = InitSession.prev_char
    /\ terminal = InitSession.terminal
    /\ result = InitSession.result
    /\ depth_seen = InitSession.depth_seen
    /\ cut_in_metadata = FALSE

\* The caller passes the next n characters of the stream to feed(), n >= 0.
Feed(n) ==
    /\ pc = "feeding"
    /\ pos + n <= Len(input)
    /\ SetSession(FeedChunk(Session, SubSeq(input, pos + 1, pos + n)))
    /\ pos' = pos + n
    /\ cut_in_metadata' =
           (cut_in_metadata \/ (n > 0 /\ mode = "CollectingMetadata" /\ ~terminal))
    /\ UNCHANGED << input, pc, returned >>

\* The caller calls finalize(), at the end of the stream or before it.
Finalize ==
    /\ pc = "feeding"
    /\ pc' = "done"
    /\ returned' = FinalizeResult(Session)
    /\ UNCHANGED << input, pos, mode, text_buffer, metadata_buffer, brace_depth,
                    in_string, escape_pending, prev_char, terminal, result, depth_seen,
                    cut_in_metadata >>


\* ------------------------------------------------------- exact fractions
\* Scores are kept as exact fractions in lowest terms.
RECURSIVE GCD(_, _)
GCD(a, b) == IF b = 0 THEN a ELSE GCD(b, a % b)

Frac(n, d) == LET g == GCD(n, d) IN [n |-> n \div g, d |-> d \div g]
FracOfInt(i) == [n |-> i, d |-> 1]
FracAdd(x, y) == Frac(x.n * y.d + y.n * x.d, x.d * y.d)
FracMul(x, y) == Frac(x.n * y.n, x.d * y.d)
FracDivInt(x, i) == Frac(x.n, x.d * i)
FracLeq(x, y) == x.n * y.d <= y.n * x.d
FracZero == FracOfInt(0)
FracOne == FracOfInt(1)

\* ------------------------------------------------------------- tool calls
\* An argument value with its type; str() of it is its text, repr() quotes a
\* string.
StrVal(txt) == [ty |-> "str", s |-> txt]
IntVal(txt) == [ty |-> "int", s |-> txt]
Arg(key, val) == [k |-> key, v |-> val]
\* ToolCall(name, args); args is a dict, kept in insertion order.
ToolCall(name, args) == [name |-> name, args |-> args]

\* The tool calls the scored lists are drawn from.
Calls ==
    { ToolCall("search", << >>),
      ToolCall("search", << Arg("q", StrVal("x")) >>),
      ToolCall("search", << Arg("q", StrVal("y")) >>),
      ToolCall("search", << Arg("q", StrVal("x")), Arg("r", StrVal("y")) >>),
      ToolCall("search", << Arg("r", StrVal("y")), Arg("q", StrVal("x")) >>),
      ToolCall("calc", << >>),
      ToolCall("calc", << Arg("q", IntVal("1")) >>),
      ToolCall("calc", << Arg("q", StrVal("1")) >>) }

CallLists(n) == [1..n -> Calls]

\* Character codes, for the comparison of strings.
Ord(ch) ==
    CASE ch = " " -> 32 [] ch = "'" -> 39 [] ch = "," -> 44 [] ch = "1" -> 49
      [] ch = ":" -> 58 [] ch = "a" -> 97 [] ch = "c" -> 99 [] ch = "e" -> 101
      [] ch = "h" -> 104 [] ch = "l" -> 108 [] ch = "q" -> 113 [] ch = "r" -> 114
      [] ch = "s" -> 115 [] ch = "x" -> 120 [] ch = "y" -> 121 [] ch = "{" -> 123
      [] ch = "}" -> 125

\* The characters of a name, key or value text.
CharsOf(txt) ==
    CASE txt = "search" -> << "s", "e", "a", "r", "c", "h" >>
      [] txt = "calc" -> << "c", "a", "l", "c" >>
      [] OTHER -> << txt >>

\* str < str: lexicographic on character codes, a proper prefix first.
RECURSIVE LexLess(_, _)
LexLess(a, b) ==
    IF b = << >> THEN FALSE
    ELSE IF a = << >> THEN TRUE
    ELSE IF Ord(Head(a)) # Ord(Head(b)) THEN Ord(Head(a)) < Ord(Head(b))
    ELSE LexLess(Tail(a), Tail(b))

\* repr() of a key or value.
Quoted(txt) == << "'" >> \o CharsOf(txt) \o << "'" >>
ReprVal(v) == IF v.ty = "str" THEN Quoted(v.s) ELSE CharsOf(v.s)

\* str(args) of a dict: {'k': v, 'k2': v2} in insertion order.
RECURSIVE ItemsStr(_)
ItemsStr(args) ==
    IF args = << >> THEN << >>
    ELSE Quoted(Head(args).k) \o << ":", " " >> \o ReprVal(Head(args).v)
         \o (IF Tail(args) = << >> THEN << >> ELSE << ",", " " >> \o ItemsStr(Tail(args)))

DictStr(args) == << "{" >> \o ItemsStr(args) \o << "}" >>

\* The sort key (tc.name, str(tc.args)) compared as a tuple.
SortKeyLess(a, b) ==
    \/ LexLess(CharsOf(a.name), CharsOf(b.name))
    \/ a.name = b.name /\ LexLess(DictStr(a.args), DictStr(b.args))

NameLess(a, b) == LexLess(CharsOf(a), CharsOf(b))
\* The order of the sort: "calls" by the key of a call, "names" by the name.
KeyLess(by, a, b) == IF by = "calls" THEN SortKeyLess(a, b) ELSE NameLess(a, b)
\* sorted(): stable, an element goes after every element that is not greater.
RECURSIVE InsertSorted(_, _, _)
InsertSorted(by, sq, x) ==
    IF sq = << >> THEN << x >>
    ELSE IF KeyLess(by, x, Head(sq)) THEN << x >> \o sq
    ELSE << Head(sq) >> \o InsertSorted(by, Tail(sq), x)
RECURSIVE SortedBy(_, _)
SortedBy(by, sq) ==
    IF sq = << >> THEN << >>
    ELSE InsertSorted(by, SortedBy(by, SubSeq(sq, 1, Len(sq) - 1)), sq[Len(sq)])
SortedCalls(calls) == SortedBy("calls", calls)
SortedNames(names) == SortedBy("names", names)
NamesOf(calls) == [i \in 1..Len(calls) |-> calls[i].name]

Min(a, b) == IF a <= b THEN a ELSE b

HasKey(args, key) == \E i \in 1..Len(args) : args[i].k = key
ValueOf(args, key) == (CHOOSE i \in 1..Len(args) : args[i].k = key)
\* Variant: values are compared with their types, an int never equals a str.
ArgMatchesTyped(pred_args, ref_args, i) ==
    /\ HasKey(pred_args, ref_args[i].k)
    /\ pred_args[ValueOf(pred_args, ref_args[i].k)].v = ref_args[i].v

ArgMatches(pred_args, ref_args, i) ==
    /\ HasKey(pred_args, ref_args[i].k)
    /\ pred_args[ValueOf(pred_args, ref_args[i].k)].v.s = ref_args[i].v.s

\* Variant: without the case of two empty argument maps, an empty reference
\* map always scores 0.
CompareArgsNoEmptyCase(pred_args, ref_args) ==
    IF ref_args = << >> THEN FracZero
    ELSE Frac(Cardinality({ i \in 1..Len(ref_args) : ArgMatches(pred_args, ref_args, i) }),
              Len(ref_args))

\* _compare_args(pred_args, ref_args)
CompareArgs(pred_args, ref_args) ==
    IF ref_args = << >> /\ pred_args = << >> THEN FracOne
    ELSE IF ref_args = << >> THEN FracZero
    ELSE Frac(Cardinality({ i \in 1..Len(ref_args) : ArgMatches(pred_args, ref_args, i) }),
              Len(ref_args))

\* The score of the aligned pair at one position.
PairScore(pred, ref) ==
    IF pred.name = ref.name THEN CompareArgs(pred.args, ref.args) ELSE FracZero

\* arg_scores: one score per compared position.
ArgScores(pred, ref) ==
    [i \in 1..Min(Len(pred), Len(ref)) |-> PairScore(pred[i], ref[i])]

RECURSIVE FracSum(_)
FracSum(sq) == IF sq = << >> THEN FracZero ELSE FracAdd(Head(sq), FracSum(Tail(sq)))

\* Variant: the lists are compared in the order given, in either mode.
OrderedAsGiven(strict, calls) == calls

\* The lists as compared: sorted by (name, str(args)) under flexible order.
Ordered(strict, calls) == IF strict THEN calls ELSE SortedCalls(calls)

\* Variant: alignment compares the sets of names, blind to order and count.
SequenceAlignedNameSets(strict, pred, ref) ==
    { pred[i].name : i \in 1..Len(pred) } = { ref[i].name : i \in 1..Len(ref) }

SequenceAligned(strict, pred, ref) ==
    IF strict THEN NamesOf(pred) = NamesOf(ref)
    ELSE SortedNames(NamesOf(pred)) = SortedNames(NamesOf(ref))

\* Variant: the sum of the pair scores, not divided by len(reference).
AvgArgAccuracySum(pred, ref) == FracSum(ArgScores(pred, ref))

\* avg_arg_accuracy = sum(arg_scores) / len(reference)
AvgArgAccuracy(pred, ref) == FracDivInt(FracSum(ArgScores(pred, ref)), Len(ref))

\* Variant: the compared pairs as a share of the predicted calls.
CoverageOfPredicted(pred, ref) == Frac(Min(Len(pred), Len(ref)), Len(pred))

\* coverage = compare_count / len(reference)
Coverage(pred, ref) == Frac(Min(Len(pred), Len(ref)), Len(ref))

BoolInt(b) == IF b THEN FracOne ELSE FracZero

\* Variant: alignment is not a factor of the score.
FinalScoreUngated(avg, aligned, cov) == FracMul(avg, cov)

\* score = avg_arg_accuracy * int(sequence_aligned) * coverage
FinalScore(avg, aligned, cov) == FracMul(FracMul(avg, BoolInt(aligned)), cov)

MkEvalResult(score, aligned, acc, matched, total, warned) ==
    [ score |-> score, sequence_aligned |-> aligned, arg_accuracy |-> acc,
      matched_tools |-> matched, total_tools |-> total, warned |-> warned ]

\* The result record from the computed parts.
AssembleResult(pred, ref, aligned, scores, avg) ==
    MkEvalResult(FinalScore(avg, aligned, Coverage(pred, ref)), aligned, avg,
                 Cardinality({ i \in 1..Len(scores) : scores[i] = FracOne }),
                 Len(ref), Len(pred) # Len(ref))

\* evaluate() from the length warning on, on the lists as compared.
EvaluateOrdered(strict, pred, ref) ==
    AssembleResult(pred, ref, SequenceAligned(strict, pred, ref), ArgScores(pred, ref),
                   AvgArgAccuracy(pred, ref))

\* Variant: an empty list on either side is vacuously correct.
EvaluateEmptyVacuous(strict, pred0, ref0) ==
    IF pred0 = << >> \/ ref0 = << >> THEN MkEvalResult(FracOne, TRUE, FracOne, 0, 0, FALSE)
    ELSE EvaluateOrdered(strict, Ordered(strict, pred0), Ordered(strict, ref0))

\* ToolCallAccuracy.evaluate(predicted, reference) with self.strict_order = strict
Evaluate(strict, pred0, ref0) ==
    IF pred0 = << >> /\ ref0 = << >> THEN MkEvalResult(FracOne, TRUE, FracOne, 0, 0, FALSE)
    ELSE IF pred0 = << >> THEN MkEvalResult(FracZero, FALSE, FracZero, 0, Len(ref0), FALSE)
    ELSE IF ref0 = << >> THEN MkEvalResult(FracZero, FALSE, FracZero, 0, 0, FALSE)
    ELSE EvaluateOrdered(strict, Ordered(strict, pred0), Ordered(strict, ref0))

\* The local arg_scores of evaluate() at its return: empty on the early
\* returns, else one score per compared position of the lists as compared.
EvaluateArgScores(strict, pred0, ref0) ==
    IF pred0 = << >> \/ ref0 = << >> THEN << >>
    ELSE ArgScores(Ordered(strict, pred0), Ordered(strict, ref0))

\* The local coverage of evaluate() at its return; the early returns leave
\* before it is computed.
EvaluateCoverage(pred0, ref0) ==
    IF pred0 = << >> \/ ref0 = << >> THEN FracZero ELSE Coverage(pred0, ref0)

\* _evaluate() from the alignment check on, on the lists as compared.
MetricEvaluateOrdered(strict, pred, ref) ==
    IF ~SequenceAligned(strict, pred, ref) THEN FracZero
    ELSE FracMul(AvgArgAccuracy(pred, ref), Coverage(pred, ref))

\* ToolCallAccuracyMetric._evaluate(predicted, reference), the second variant
MetricEvaluate(strict, pred0, ref0) ==
    IF pred0 = << >> /\ ref0 = << >> THEN FracOne
    ELSE IF pred0 = << >> \/ ref0 = << >> THEN FracZero
    ELSE MetricEvaluateOrdered(strict, Ordered(strict, pred0), Ordered(strict, ref0))

NoEvalResult == MkEvalResult(FracZero, FALSE, FracZero, 0, 0, FALSE)

\* Lists of three calls over two names, for the cases that need two lists of
\* equal length with a repeated name.
LitmusCallLists ==
    [1..3 -> { ToolCall("search", << Arg("q", StrVal("x")) >>),
               ToolCall("search", << Arg("q", StrVal("y")) >>),
               ToolCall("calc", << >>) }]

ScorerInit ==
    /\ strict_order \in BOOLEAN
    /\ \/ \E np \in 0..MaxCalls : \E nr \in 0..(MaxCalls - np) :
             /\ predicted \in CallLists(np)
             /\ reference \in CallLists(nr)
       \/ /\ predicted \in LitmusCallLists
          /\ reference \in LitmusCallLists
    /\ epc = "call"
    /\ eval_result = NoEvalResult
    /\ metric_score = FracZero
    /\ arg_scores = << >>
    /\ coverage = FracZero

ScorerIdle ==
    /\ strict_order = TRUE
    /\ predicted = << >>
    /\ reference = << >>
    /\ epc = "idle"
    /\ eval_result = NoEvalResult
    /\ metric_score = FracZero
    /\ arg_scores = << >>
    /\ coverage = FracZero

\* Variant: the lists are sorted in place, as list.sort() would.
CallerListSortedInPlace(strict, calls) == Ordered(strict, calls)

\* The caller's list after the call: sorted() builds a new list and evaluate()
\* rebinds its own parameter to it, the list passed in is as it was.
CallerList(strict, calls) == calls

\* result = evaluator.evaluate(predicted, reference)
EvaluateCall ==
    /\ epc = "call"
    /\ eval_result' = Evaluate(strict_order, predicted, reference)
    /\ metric_score' = MetricEvaluate(strict_order, predicted, reference)
    /\ arg_scores' = EvaluateArgScores(strict_order, predicted, reference)
    /\ coverage' = EvaluateCoverage(predicted, reference)
    /\ epc' = "returned"
    /\ predicted' = CallerList(strict_order, predicted)
    /\ reference' = CallerList(strict_order, reference)
    /\ UNCHANGED strict_order

DemuxIdle ==
    /\ input = << >>
    /\ pos = 0
    /\ pc = "idle"
    /\ returned = NoResult
    /\ mode = InitSession.mode
    /\ text_buffer = InitSession.text_buffer
    /\ metadata_buffer = InitSession.metadata_buffer
    /\ brace_depth = InitSession.brace_depth
    /\ in_string = InitSession.in_string
    /\ escape_pending = InitSession.escape_pending
    /\ prev_char = InitSession.prev_char
    /\ terminal = InitSession.terminal
    /\ result = InitSession.result
    /\ depth_seen = InitSession.depth_seen
    /\ cut_in_metadata = FALSE

\* ------------------------------------------------------------ get_answers
\* A line is a text: a sequence of characters and unsplit words.
DataMarker == "data:"
DoneSentinel == << "[", "DONE", "]" >>

JsonText(key, val) == << LBrace, Quote, key, Quote, ":", Quote >> \o val \o << Quote, RBrace >>
DeltaText(val) == << Quote, "delta", Quote, ":" >> \o JsonText("text", val)
Choice(val) == << LBrace, Quote, "delta", Quote, ":" >> \o JsonText("content", val) \o << RBrace >>

\* The lines a response body is made of.
Lines ==
    { << Space >>,
      << Space, "hi", Space >>,
      << DataMarker, Space, "hi" >>,
      << DataMarker, Space >>,
      << DataMarker, Space >> \o DoneSentinel,
      DoneSentinel,
      << LBrace, "hi" >>,
      JsonText("text", << "A" >>),
      << DataMarker, LBrace, Quote, "text", Quote, ":", Quote, "A", Quote, "," >>
          \o DeltaText(<< "B" >>) \o << RBrace >>,
      << LBrace, Quote, "text", Quote, ":", Quote, Quote, "," >>
          \o DeltaText(<< "B" >>) \o << RBrace >>,
      << DataMarker, Space, LBrace >> \o DeltaText(<< "B" >>)
          \o << ",", Quote, "choices", Quote, ":", "[" >> \o Choice(<< "C" >>)
          \o << "]", RBrace >>,
      << LBrace, Quote, "choices", Quote, ":", "[" >> \o Choice(<< "C" >>) \o << "," >>
          \o Choice(<< "D" >>)
          \o << "]", ",", Quote, "type", Quote, ":", Quote, "content_block_delta", Quote,
                RBrace >>,
      << LBrace, Quote, "type", Quote, ":", Quote, "content_block_delta", Quote, "," >>
          \o DeltaText(<< "B" >>) \o << RBrace >>,
      JsonText("type", << "ping" >>),
      << LBrace, Quote, "choices", Quote, ":", "[", Quote, "hi", Quote, "]", RBrace >>,
      << LBrace, Quote, "choices", Quote, ":", "[", LBrace, Quote, "delta", Quote, ":",
         "null", RBrace, "]", RBrace >>,
      << "[", "1", "]" >> }

\* d.get(key): the value, or None when d has no such key.
JHas(d, key) == \E n \in 1..Len(d.m) : d.m[n].k = << key >>
JGet(d, key) ==
    IF JHas(d, key) THEN d.m[CHOOSE n \in 1..Len(d.m) : d.m[n].k = << key >>].v
    ELSE NullJson

IsDict(v) == v.t = "obj"
IsList(v) == v.t = "arr"

\* bool(v)
Truthy(v) ==
    CASE v.t = "null" -> FALSE
      [] v.t = "bool" -> v.s = << "true" >>
      [] v.t = "str" -> v.s # << >>
      [] v.t = "num" -> \E n \in 1..Len(v.s) : v.s[n] # "0"
      [] OTHER -> v.m # << >>

\* str(v) of a string, number, boolean or None (the modelled bodies carry no
\* list or dict as a text value).
PyStr(v) ==
    CASE v.t = "null" -> << "None" >>
      [] v.t = "bool" -> IF v.s = << "true" >> THEN << "True" >> ELSE << "False" >>
      [] OTHER -> v.s

\* The fragments one entry of choices appends; raises when ch or its delta has
\* no get().
ChoiceOutcome(ch) ==
    IF ~IsDict(ch) THEN [raised |-> TRUE, frags |-> << >>]
    ELSE
      LET d == JGet(ch, "delta")
          delta == IF Truthy(d) THEN d ELSE JObj(<< >>)
      IN  IF ~IsDict(delta) THEN [raised |-> TRUE, frags |-> << >>]
          ELSE IF Truthy(JGet(delta, "content"))
               THEN [raised |-> FALSE, frags |-> << PyStr(JGet(delta, "content")) >>]
               ELSE [raised |-> FALSE, frags |-> << >>]

\* for ch in obj["choices"]: the fragments appended up to the first raise.
RECURSIVE ChoicesOutcome(_)
ChoicesOutcome(elements) ==
    IF elements = << >> THEN [raised |-> FALSE, frags |-> << >>]
    ELSE
      LET first == ChoiceOutcome(Head(elements).v)
      IN  IF first.raised THEN first
          ELSE
            LET rest == ChoicesOutcome(Tail(elements))
            IN  [raised |-> rest.raised, frags |-> first.frags \o rest.frags]

Shape1(obj) == IsDict(obj) /\ JHas(obj, "text")
Shape2(obj) == IsDict(obj) /\ IsDict(JGet(obj, "delta")) /\ JHas(JGet(obj, "delta"), "text")
Shape3(obj) == IsDict(obj) /\ IsList(JGet(obj, "choices"))
Shape4(obj) ==
    /\ IsDict(obj)
    /\ JGet(obj, "type") = JStr(<< "content_block_delta" >>)
    /\ IsDict(JGet(obj, "delta"))
    /\ JHas(JGet(obj, "delta"), "text")

\* Variant: the nested delta text is tested before the flat text.
DecidingShapeDeltaFirst(obj) ==
    IF Shape2(obj) THEN 2
    ELSE IF Shape1(obj) THEN 1
    ELSE IF Shape3(obj) THEN 3
    ELSE IF Shape4(obj) THEN 4
    ELSE 0

\* The shape whose branch handles a parsed line: the first test that passes in
\* the order of the code, 0 when none does.
DecidingShape(obj) ==
    IF Shape1(obj) THEN 1
    ELSE IF Shape2(obj) THEN 2
    ELSE IF Shape3(obj) THEN 3
    ELSE IF Shape4(obj) THEN 4
    ELSE 0

\* What the branch of the deciding shape appends.
ShapeOutcome(obj) ==
    LET shape == DecidingShape(obj)
        one(v) == IF Truthy(v) THEN << PyStr(v) >> ELSE << >>
    IN  CASE shape = 1 -> [raised |-> FALSE, frags |-> one(JGet(obj, "text"))]
          [] shape = 2 -> [raised |-> FALSE, frags |-> one(JGet(JGet(obj, "delta"), "text"))]
          [] shape = 3 -> ChoicesOutcome(JGet(obj, "choices").m)
          [] shape = 4 -> [raised |-> FALSE,
                           frags |-> << PyStr(JGet(JGet(obj, "delta"), "text")) >>]
          [] OTHER -> [raised |-> FALSE, frags |-> << >>]

LineOutcome(coll, raws, how) == [collected |-> coll, raw_lines |-> raws, how |-> how]

\* Variant: the sentinel is compared on every line, marked or not.
SentinelStopsAnyLine(line, marked) == line = DoneSentinel

\* if line == "[DONE]": break, reached only inside the "data:" branch.
SentinelStops(line, marked) == marked /\ line = DoneSentinel

\* The branch of a parsed line: the fragments of the deciding shape.
ParsedOutcome(coll, raws, out) ==
    LineOutcome(coll \o out.frags, raws, IF out.raised THEN "raise" ELSE "continue")

\* Variant: a line that looks like JSON and does not parse is dropped.
JsonOutcomeDropsInvalid(coll, raws, line, parsed) ==
    IF ~parsed.ok THEN LineOutcome(coll, raws, "continue")
    ELSE ParsedOutcome(coll, raws, ShapeOutcome(parsed.val))

\* if line.startswith("{") or line.startswith("["): try json.loads(line)
JsonOutcome(coll, raws, line, parsed) ==
    IF ~parsed.ok THEN LineOutcome(Append(coll, line), raws, "continue")
    ELSE ParsedOutcome(coll, raws, ShapeOutcome(parsed.val))

\* The loop body from the "data:" test on; raws already holds the line.
PayloadOutcome(coll, raws, marked, line) ==
    IF marked /\ line = << >> THEN LineOutcome(coll, raws, "continue")
    ELSE IF SentinelStops(line, marked) THEN LineOutcome(coll, raws, "break")
    ELSE IF Head(line) \in { LBrace, "[" } THEN JsonOutcome(coll, raws, line, JsonLoads(line))
    ELSE LineOutcome(Append(coll, line), raws, "continue")

IsMarked(stripped) == Head(stripped) = DataMarker

\* The loop body after line = raw.strip().
StrippedOutcome(coll, raws, stripped) ==
    IF stripped = << >> THEN LineOutcome(coll, raws, "continue")
    ELSE PayloadOutcome(coll, Append(raws, stripped), IsMarked(stripped),
                        IF IsMarked(stripped) THEN TrimLeft(Tail(stripped)) ELSE stripped)

\* One iteration of the loop over r.iter_lines(): the new collected and
\* raw_lines, and how the iteration ends ("continue", "break" or "raise").
ReadOutcome(coll, raws, raw) == StrippedOutcome(coll, raws, Trim(raw))

\* "".join(parts) and "\n".join(parts)
RECURSIVE Join(_, _)
Join(sep, parts) ==
    IF parts = << >> THEN << >>
    ELSE IF Len(parts) = 1 THEN parts[1]
    ELSE parts[1] \o sep \o Join(sep, Tail(parts))

\* Variant: the fragments are joined with newlines, like the raw lines.
ReturnValueNewlineJoined(coll, raws) ==
    IF coll # << >> THEN Join(<< Newline >>, coll) ELSE Join(<< Newline >>, raws)

\* The return statements after the loop.
ReturnValue(coll, raws) ==
    IF coll # << >> THEN Join(<< >>, coll) ELSE Join(<< Newline >>, raws)

\* get_answers on a whole response body: the loop over the lines from the
\* buffers (coll, raws), then the return; "raised" when a line raises.
RECURSIVE RunBody(_, _, _)

RunBodyAfter(out, rest) ==
    IF out.how = "break"
    THEN [how |-> "returned", answer |-> ReturnValue(out.collected, out.raw_lines)]
    ELSE IF out.how = "raise" THEN [how |-> "raised", answer |-> << >>]
    ELSE RunBody(out.collected, out.raw_lines, rest)

RunBody(coll, raws, lines) ==
    IF lines = << >> THEN [how |-> "returned", answer |-> ReturnValue(coll, raws)]
    ELSE RunBodyAfter(ReadOutcome(coll, raws, Head(lines)), Tail(lines))

GetAnswers(lines) == RunBody(<< >>, << >>, lines)

LinesInit ==
    /\ seen = << >>
    /\ collected = << >>
    /\ raw_lines = << >>
    /\ lpc = "reading"
    /\ answer = << >>

LinesIdle ==
    /\ seen = << >>
    /\ collected = << >>
    /\ raw_lines = << >>
    /\ lpc = "idle"
    /\ answer = << >>

\* The state after one iteration of the loop.
ApplyOutcome(out) ==
    /\ collected' = out.collected
    /\ raw_lines' = out.raw_lines
    /\ lpc' = CASE out.how = "break" -> "returned"
                [] out.how = "raise" -> "raised"
                [] OTHER -> "reading"
    /\ answer' = IF out.how = "break"
                 THEN ReturnValue(out.collected, out.raw_lines)
                 ELSE answer

\* The loop body on the next line of the body; a break goes straight to the
\* return, an exception leaves get_answers without a value.
ReadLine(raw) ==
    /\ lpc = "reading"
    /\ Len(seen) < MaxLines
    /\ ApplyOutcome(ReadOutcome(collected, raw_lines, raw))
    /\ seen' = Append(seen, raw)

\* The body ends: the loop is left and the text is returned.
EndOfBody ==
    /\ lpc = "reading"
    /\ lpc' = "returned"
    /\ answer' = ReturnValue(collected, raw_lines)
    /\ UNCHANGED << seen, collected, raw_lines >>

\* ------------------------------------------------------------ /chat (rag.py)
\* session_id and input values of the requests.
SessionIds == { "s1", "s2" }
ChatInputs == { "hi", "more" }

\* HumanMessage and AIMessage; req is the number of the request the message
\* belongs to (the model's answer is opaque and named by its request).
HumanMessage(content, n) == [type |-> "human", content |-> content, req |-> n]
AIMessage(n) == [type |-> "ai", content |-> "answer", req |-> n]

\* store: Dict[str, InMemoryChatMessageHistory] = {}
EmptyStore == [sid \in {} |-> << >>]

\* get_session_history(session_id): the store after the call; a missing
\* session gets an empty InMemoryChatMessageHistory.
GetSessionHistory(st, session_id) ==
    IF session_id \in DOMAIN st THEN st
    ELSE [sid \in (DOMAIN st) \cup { session_id } |->
              IF sid = session_id THEN << >> ELSE st[sid]]

\* build_chat_rag_chain(k): the chain closes over a store created by this call.
BuildChatRagChain == [store |-> EmptyStore]

\* rag.invoke({"input": ...}, config session_id): the wrapper reads the
\* session's buffer as the history, runs the chain, then appends the incoming
\* HumanMessage and the resulting AIMessage to the buffer.
Invoke(rag, session_id, inp, n) ==
    LET st == GetSessionHistory(rag.store, session_id)
    IN [ history |-> st[session_id],
         store |-> [st EXCEPT ![session_id] =
                       st[session_id] \o << HumanMessage(inp, n), AIMessage(n) >>],
         answer |-> AIMessage(n).content ]

ChatInit ==
    /\ served = << >>
    /\ store = EmptyStore
    /\ history = << >>
    /\ cpc = "ready"

ChatIdle ==
    /\ served = << >>
    /\ store = EmptyStore
    /\ history = << >>
    /\ cpc = "idle"

\* chat(req): builds the chain, invokes it for the request's session and
\* returns the answer.
ChatServed(out, session_id, inp) ==
    /\ served' = Append(served, [session_id |-> session_id, input |-> inp,
                                 answer |-> out.answer])
    /\ store' = out.store
    /\ history' = out.history
    /\ cpc' = "served"

Chat(session_id, inp) ==
    /\ cpc \in { "ready", "served" }
    /\ Len(served) < MaxRequests
    /\ ChatServed(Invoke(BuildChatRagChain, session_id, inp, Len(served) + 1),
                  session_id, inp)

\* ---------------------------------------------------------- specifications
\* One StreamDemux session fed a stream in chunks.
Init == DemuxInit /\ ScorerIdle /\ LinesIdle /\ ChatIdle

Next ==
    \/ \E n \in 0..(Len(input) - pos) : Feed(n) /\ UNCHANGED << scorerVars, linesVars, chatVars >>
    \/ Finalize /\ UNCHANGED << scorerVars, linesVars, chatVars >>

Spec == Init /\ [][Next]_vars

\* One call of the tool-call scorer.
ScorerSpecInit == ScorerInit /\ DemuxIdle /\ LinesIdle /\ ChatIdle

ScorerNext == EvaluateCall /\ UNCHANGED << demuxVars, linesVars, chatVars >>

SpecScorer == ScorerSpecInit /\ [][ScorerNext]_vars

\* One call of evaluate() of an evaluator built with strict_order = False, on
\* lists over calls that share a name and differ in arguments or in the
\* insertion order of their arguments.
FlexibleCalls ==
    { ToolCall("search", << >>),
      ToolCall("search", << Arg("q", StrVal("x")) >>),
      ToolCall("search", << Arg("q", StrVal("x")), Arg("r", StrVal("y")) >>),
      ToolCall("search", << Arg("r", StrVal("y")), Arg("q", StrVal("x")) >>),
      ToolCall("calc", << Arg("q", IntVal("1")) >>) }

FlexibleInit ==
    /\ strict_order = FALSE
    /\ \E np \in 0..MaxCalls : \E nr \in 0..(MaxCalls - np) :
          /\ predicted \in [1..np -> FlexibleCalls]
          /\ reference \in [1..nr -> FlexibleCalls]
    /\ epc = "call"
    /\ eval_result = NoEvalResult
    /\ metric_score = FracZero
    /\ arg_scores = << >>
    /\ coverage = FracZero

FlexibleSpecInit == FlexibleInit /\ DemuxIdle /\ LinesIdle /\ ChatIdle

SpecFlexible == FlexibleSpecInit /\ [][ScorerNext]_vars

\* One call of get_answers on a response body delivered line by line.
LinesSpecInit == LinesInit /\ DemuxIdle /\ ScorerIdle /\ ChatIdle

LinesNext ==
    \/ \E raw \in Lines : ReadLine(raw) /\ UNCHANGED << demuxVars, scorerVars, chatVars >>
    \/ EndOfBody /\ UNCHANGED << demuxVars, scorerVars, chatVars >>

SpecLines == LinesSpecInit /\ [][LinesNext]_vars

\* A sequence of /chat requests handled one after the other by one process.
ChatSpecInit == ChatInit /\ DemuxIdle /\ ScorerIdle /\ LinesIdle

ChatNext ==
    \E sid \in SessionIds : \E inp \in ChatInputs :
        Chat(sid, inp) /\ UNCHANGED << demuxVars, scorerVars, linesVars >>

SpecChat == ChatSpecInit /\ [][ChatNext]_vars

\* ------------------------------------------------------ StreamDemux claims
\* A step that is feed() of exactly one character; the character is
\* input[pos'].
OneCharFeed == pc = "feeding" /\ pos' = pos + 1

\* The position of the first opening brace of the stream that is at position 1
\* or right after a newline; Len + 1 if there is none.
FirstAnchor(str) ==
    LET hits == { i \in 1..Len(str) :
                    str[i] = LBrace /\ (i = 1 \/ str[i - 1] = Newline) }
    IN  IF hits = {} THEN Len(str) + 1
        ELSE CHOOSE i \in hits : \A j \in hits : i <= j

\* The number of consecutive backslashes that end the buffer is odd.
RECURSIVE TrailingBackslashes(_)
TrailingBackslashes(b) ==
    IF b # << >> /\ b[Len(b)] = Backslash
    THEN 1 + TrailingBackslashes(SubSeq(b, 1, Len(b) - 1))
    ELSE 0

OddBackslashRun(b) == TrailingBackslashes(b) % 2 = 1

Contains(b, x, y) == \E i \in 1..(Len(b) - 1) : b[i] = x /\ b[i + 1] = y

\* C1: chunk-boundary invariance. However the stream was cut into chunks for
\* feed(), once all of it was fed and finalize() was called the (text, metadata)
\* result is the one obtained by feeding the whole stream as a single chunk.
C1_ChunkInvariance ==
    (pc = "done" /\ pos = Len(input))
        => returned = FinalizeResult(FeedChunk(InitSession, input))

\* C1 witness: a finished run whose metadata parsed although a chunk boundary
\* fell inside the metadata object, after some text.
C1_Witness ==
    /\ pc = "done"
    /\ pos = Len(input)
    /\ cut_in_metadata
    /\ returned.metadata.kind = "parsed"
    /\ returned.text # << >>

\* C2: in CollectingText mode the character c starts the metadata if and only
\* if c is an opening brace that is the first character of the stream or comes
\* right after a newline; then c is not appended to text_buffer; every other
\* character is appended to text_buffer and the mode stays CollectingText.
C2_MetadataStartIff ==
    [][ (OneCharFeed /\ mode = "CollectingText")
          => IF input[pos'] = LBrace /\ (pos = 0 \/ input[pos] = Newline)
             THEN /\ mode' = "CollectingMetadata"
                  /\ text_buffer' = text_buffer
                  /\ metadata_buffer' = << LBrace >>
             ELSE /\ mode' = "CollectingText"
                  /\ text_buffer' = Append(text_buffer, input[pos']) ]_vars

\* C2 witness: still collecting text after an opening brace that was not
\* anchored was appended to the text.
C2_Witness ==
    /\ mode = "CollectingText"
    /\ Len(text_buffer) >= 2
    /\ text_buffer[Len(text_buffer)] = LBrace
    /\ text_buffer[Len(text_buffer) - 1] # Newline

\* C7: brace_depth is 0 in CollectingText mode and never negative; the session
\* is terminal exactly when brace_depth is 0 after having been at least 1; and
\* brace_depth changes only in a step that processes metadata characters (a
\* step that ends in CollectingMetadata: the start character switches the mode
\* and sets the depth to 1 at once).
C7_DepthState ==
    /\ brace_depth >= 0
    /\ mode = "CollectingText" => brace_depth = 0
    /\ terminal <=> (depth_seen /\ brace_depth = 0)

C7_BraceDepthInvariant ==
    /\ [] C7_DepthState
    /\ [][ brace_depth' # brace_depth => mode' = "CollectingMetadata" ]_vars

\* C7 witness: a terminal session whose block was balanced but is not JSON and
\* whose depth had reached 2.
C7_Witness ==
    /\ terminal
    /\ brace_depth = 0
    /\ result.metadata.kind = "raw"
    /\ Contains(metadata_buffer, LBrace, LBrace)

\* C8: once in CollectingMetadata the session stays there and text_buffer never
\* changes again; an opening brace fed later is never a new metadata candidate:
\* it does not shrink or restart metadata_buffer and brace_depth does not
\* decrease (it grows by one unless the brace is inside a string literal or
\* the session is terminal).
C8_NoReentry ==
    [][ mode = "CollectingMetadata"
          => /\ mode' = "CollectingMetadata"
             /\ text_buffer' = text_buffer
             /\ Len(metadata_buffer') >= Len(metadata_buffer)
             /\ SubSeq(metadata_buffer', 1, Len(metadata_buffer)) = metadata_buffer
             /\ (OneCharFeed /\ input[pos'] = LBrace)
                  => /\ brace_depth' >= brace_depth
                     /\ brace_depth' =
                          IF terminal \/ in_string THEN brace_depth
                          ELSE brace_depth + 1 ]_vars

\* C8 witness: inside the metadata object, at depth 2, after a newline-anchored
\* opening brace was taken as nested structure.
C8_Witness ==
    /\ mode = "CollectingMetadata"
    /\ ~terminal
    /\ brace_depth >= 2
    /\ Contains(metadata_buffer, Newline, LBrace)
    /\ text_buffer # << >>

\* C9: in CollectingMetadata a brace inside a string literal leaves brace_depth
\* unchanged and does not complete the object; a quote that follows an
\* unescaped backslash does not end the string; the session becomes terminal
\* only at a closing brace outside any string at depth 1.
C9_StringAwareDepth ==
    [][ (OneCharFeed /\ mode = "CollectingMetadata" /\ ~terminal)
          => /\ (in_string /\ input[pos'] \in { LBrace, RBrace })
                  => (brace_depth' = brace_depth /\ ~terminal')
             /\ (in_string /\ OddBackslashRun(metadata_buffer) /\ input[pos'] = Quote)
                  => in_string'
             /\ terminal'
                  => (input[pos'] = RBrace /\ ~in_string /\ brace_depth = 1) ]_vars

\* C9 witness: a completed object that parsed, holding an escaped quote and a
\* brace inside a string, completed only by the last character of the stream.
C9_Witness ==
    /\ terminal
    /\ result.metadata.kind = "parsed"
    /\ Contains(metadata_buffer, Backslash, Quote)
    /\ Contains(metadata_buffer, Quote, RBrace)
    /\ metadata_buffer = input

\* C10: when the brace-balanced block is not valid JSON, finalize() returns the
\* raw trimmed block as the metadata and, as the text, exactly the characters
\* that came before the metadata started.
C10_MalformedFallback ==
    (pc = "done" /\ terminal /\ ~JsonLoads(metadata_buffer).ok)
        => /\ returned.set
           /\ returned.metadata = RawMetadata(Trim(metadata_buffer))
           /\ returned.metadata.raw =
                SubSeq(input, FirstAnchor(input),
                       FirstAnchor(input) + Len(metadata_buffer) - 1)
           /\ returned.text = SubSeq(input, 1, FirstAnchor(input) - 1)

\* C10 witness: finalize() returned a raw block with whitespace inside it, after
\* some text.
C10_Witness ==
    /\ pc = "done"
    /\ terminal
    /\ returned.metadata.kind = "raw"
    /\ Contains(returned.metadata.raw, ":", Space)
    /\ returned.text # << >>

\* ------------------------------------------------- ToolCallAccuracy claims
\* C3: sequence alignment is a hard gate. Whatever the lists and the ordering
\* mode, a result with sequence_aligned false has score exactly 0, also when
\* arguments overlap; the second scorer variant returns 0 there too.
C3_AlignmentHardGate ==
    (epc = "returned" /\ ~eval_result.sequence_aligned)
        => (eval_result.score = FracZero /\ metric_score = FracZero)

\* C3 witness: a misaligned result whose compared pairs all matched.
C3_Witness ==
    /\ epc = "returned"
    /\ ~eval_result.sequence_aligned
    /\ eval_result.arg_accuracy = FracOne
    /\ eval_result.matched_tools >= 1

\* C4: for lists of any lengths, predicted longer than reference included, and
\* both ordering modes, score and arg_accuracy lie in [0,1].
InUnitInterval(x) == x.d > 0 /\ FracLeq(FracZero, x) /\ FracLeq(x, FracOne)

C4_ScoreBounded ==
    epc = "returned"
        => (InUnitInterval(eval_result.score) /\ InUnitInterval(eval_result.arg_accuracy))

\* C4 witness: predicted longer than a reference of two calls, every compared
\* pair matching, so that arg_accuracy is at its upper bound.
C4_Witness ==
    /\ epc = "returned"
    /\ Len(predicted) > Len(reference)
    /\ Len(reference) >= 1
    /\ eval_result.arg_accuracy = FracOne
    /\ ~strict_order

\* ------------------------------------------------------ get_answers claims
\* The payload of a line: the stripped line without a leading "data:" marker
\* and the whitespace after it.
Payload(raw) ==
    LET stripped == Trim(raw)
    IN  IF stripped # << >> /\ Head(stripped) = DataMarker
        THEN TrimLeft(Tail(stripped))
        ELSE stripped

LastSeen == seen[Len(seen)]

\* C5: a line whose payload, after the "data:" marker is stripped if present,
\* equals the sentinel [DONE] ends collection at that line, with or without
\* the marker, and the sentinel is never appended as text.
C5_SentinelStopsCollection ==
    /\ \A i \in 1..Len(seen) :
          Payload(seen[i]) = DoneSentinel => (i = Len(seen) /\ lpc = "returned")
    /\ \A j \in 1..Len(collected) : collected[j] # DoneSentinel

\* The fragment a text value contributes: str(v) if v is truthy, else nothing.
FragOf(v) == IF Truthy(v) THEN << PyStr(v) >> ELSE << >>

\* The delta.content fragments of the entries of a choices list, in order.
RECURSIVE ChoiceContents(_)
ChoiceContents(elements) ==
    IF elements = << >> THEN << >>
    ELSE FragOf(JGet(JGet(Head(elements).v, "delta"), "content"))
         \o ChoiceContents(Tail(elements))

\* The step from collected = before to collected = after appends what the
\* first matching shape of obj gives, s1..s4 telling which shapes obj matches.
C6_FirstShapeDecides(obj, s1, s2, s3, s4, before, after) ==
    /\ s1 => after = before \o FragOf(JGet(obj, "text"))
    /\ (~s1 /\ s2) => after = before \o FragOf(JGet(JGet(obj, "delta"), "text"))
    /\ (~s1 /\ ~s2 /\ s3) => after = before \o ChoiceContents(JGet(obj, "choices").m)
    /\ (~s1 /\ ~s2 /\ ~s3 /\ s4)
         => after = before \o << PyStr(JGet(JGet(obj, "delta"), "text")) >>
    /\ (~s1 /\ ~s2 /\ ~s3 /\ ~s4) => after = before

C6_ParsedDecided(parsed, before, after) ==
    parsed.ok
        => C6_FirstShapeDecides(parsed.val, Shape1(parsed.val), Shape2(parsed.val),
                                Shape3(parsed.val), Shape4(parsed.val), before, after)

C6_LineDecided(line, before, after) ==
    (line # << >> /\ Head(line) \in { LBrace, "[" })
        => C6_ParsedDecided(JsonLoads(line), before, after)

\* C6: for a line that parses as JSON the shapes are tested in the order flat
\* text, delta.text, choices, content_block_delta, and the first shape that
\* matches alone decides what the line appends: a flat text key decides even
\* when delta.text or choices are present too (and appends nothing when the
\* text is empty), delta.text decides over choices and over the
\* content_block_delta tag, choices decides over the tag, and a value of none
\* of the shapes appends nothing.
C6_ShapePriority ==
    [][ (lpc = "reading" /\ Len(seen') = Len(seen) + 1 /\ lpc' # "raised")
          => C6_LineDecided(Payload(seen'[Len(seen')]), collected, collected') ]_vars

\* C6 witness: a line with both a flat text and a delta.text gave the flat
\* text, and then a line with both a delta.text and choices gave the
\* delta.text.
C6_Witness ==
    /\ lpc = "reading"
    /\ Len(seen) = 2
    /\ LET first == JsonLoads(Payload(seen[1])).val
           second == JsonLoads(Payload(seen[2])).val
       IN  /\ Shape1(first) /\ Shape2(first)
           /\ ~Shape1(second) /\ Shape2(second) /\ Shape3(second)
    /\ collected = << << "A" >>, << "B" >> >>

\* ------------------------------------------------- StreamDemux, continued
\* The text of the characters fed so far: the characters before the first
\* anchored opening brace, all of them if there is none.
TextBeforeAnchor(str) == SubSeq(str, 1, FirstAnchor(str) - 1)

\* C11: finalize() in a non-terminal state, that is with no metadata started
\* or with a metadata object whose brace depth is still above 0, returns the
\* text accumulated so far with metadata None; a stream with no anchored
\* opening brace, fed whole, returns metadata None and the whole input as text.
C11_FinalizeWithoutMetadata ==
    /\ (pc = "done" /\ (mode = "CollectingText" \/ brace_depth > 0))
          => returned = MkResult(TextBeforeAnchor(SubSeq(input, 1, pos)), NoMetadata)
    /\ (pc = "done" /\ pos = Len(input) /\ FirstAnchor(input) > Len(input))
          => returned = MkResult(input, NoMetadata)

\* C11 witness: finalize() at the end of a stream whose metadata object was
\* started after some text and never closed.
C11_Witness ==
    /\ pc = "done"
    /\ pos = Len(input)
    /\ mode = "CollectingMetadata"
    /\ brace_depth > 0
    /\ Len(metadata_buffer) >= 2
    /\ returned.text # << >>

\* ------------------------------------------------ tool-call scorer, continued
\* The number of calls of a list that carry the name.
NameCount(calls, name) == Cardinality({ i \in 1..Len(calls) : calls[i].name = name })

ToolNames == { c.name : c \in Calls }

SameNameSequence(pred, ref) ==
    Len(pred) = Len(ref) /\ \A i \in 1..Len(pred) : pred[i].name = ref[i].name

SameNameMultiset(pred, ref) ==
    \A name \in ToolNames : NameCount(pred, name) = NameCount(ref, name)

\* C12: sequence_aligned is true under strict order exactly when the predicted
\* names equal the reference names position by position and in length, and
\* under flexible order exactly when the two multisets of names are equal.
C12_SequenceAlignedIff ==
    epc = "returned"
        => (eval_result.sequence_aligned
              <=> IF strict_order THEN SameNameSequence(predicted, reference)
                  ELSE SameNameMultiset(predicted, reference))

\* C12 witness: under flexible order two lists with the same names in a
\* different order, one name twice, are aligned.
C12_Witness ==
    /\ epc = "returned"
    /\ ~strict_order
    /\ eval_result.sequence_aligned
    /\ ~SameNameSequence(predicted, reference)
    /\ \E name \in ToolNames : NameCount(predicted, name) = 2

\* The number of reference keys that predicted carries with a value of the
\* same text.
MatchingKeys(pred_args, ref_args) ==
    Cardinality({ i \in 1..Len(ref_args) :
                    \E j \in 1..Len(pred_args) :
                        /\ pred_args[j].k = ref_args[i].k
                        /\ pred_args[j].v.s = ref_args[i].v.s })

\* The accuracy of one pair as documented: 0 for different names, 1 for two
\* empty argument maps, 0 when no reference key matches, else the matching
\* share of the reference keys.
PairAccuracy(pred, ref) ==
    IF pred.name # ref.name THEN FracZero
    ELSE IF pred.args = << >> /\ ref.args = << >> THEN FracOne
    ELSE IF MatchingKeys(pred.args, ref.args) = 0 THEN FracZero
    ELSE Frac(MatchingKeys(pred.args, ref.args), Len(ref.args))

ComparedPairs(pred, ref, scores) ==
    /\ Len(scores) = Min(Len(pred), Len(ref))
    /\ \A i \in 1..Len(scores) : scores[i] = PairAccuracy(pred[i], ref[i])

\* C13: for non-empty lists evaluate computes one argument accuracy for each
\* of exactly min(len(predicted), len(reference)) aligned pairs of the lists as
\* compared: 0 if the names differ, 1 if both argument maps are empty, else
\* (reference keys present in predicted with a string-equal value) /
\* (reference keys), which is 0 when no reference key matches.
C13_PairArgAccuracy ==
    (epc = "returned" /\ predicted # << >> /\ reference # << >>)
        => ComparedPairs(Ordered(strict_order, predicted),
                         Ordered(strict_order, reference), arg_scores)

\* C13 witness: lists of different lengths, the longer one the reference, with
\* a compared pair in which half of the reference keys match.
C13_Witness ==
    /\ epc = "returned"
    /\ Len(predicted) < Len(reference)
    /\ Len(arg_scores) = Len(predicted)
    /\ \E i \in 1..Len(arg_scores) : arg_scores[i] = Frac(1, 2)

\* C14: for non-empty lists coverage = min(len(predicted), len(reference)) /
\* len(reference) and score = (sum of the pair accuracies / len(reference)) x
\* int(sequence_aligned) x coverage; one predicted call against three
\* reference calls, matching where compared, has coverage 1/3 and a score of
\* (sum / 3) x alignment x (1/3), which is below 1.
C14_CoverageAndScore ==
    (epc = "returned" /\ predicted # << >> /\ reference # << >>)
        => /\ coverage = Frac(IF Len(predicted) <= Len(reference) THEN Len(predicted)
                              ELSE Len(reference), Len(reference))
           /\ eval_result.arg_accuracy = FracDivInt(FracSum(arg_scores), Len(reference))
           /\ eval_result.score =
                 FracMul(FracMul(FracDivInt(FracSum(arg_scores), Len(reference)),
                                 IF eval_result.sequence_aligned THEN FracOne ELSE FracZero),
                         coverage)
           /\ (Len(predicted) = 1 /\ Len(reference) = 3 /\ arg_scores = << FracOne >>)
                 => /\ coverage = Frac(1, 3)
                    /\ eval_result.score =
                          FracMul(FracMul(Frac(1, 3),
                                          IF eval_result.sequence_aligned THEN FracOne
                                          ELSE FracZero),
                                  Frac(1, 3))
                    /\ FracLeq(eval_result.score, FracOne)
                    /\ eval_result.score # FracOne

\* C14 witness: one predicted call against three reference calls, the compared
\* pair matching in full.
C14_Witness ==
    /\ epc = "returned"
    /\ Len(predicted) = 1
    /\ Len(reference) = 3
    /\ arg_scores = << FracOne >>
    /\ eval_result.matched_tools = 1
    /\ coverage = Frac(1, 3)

\* C15: the call of evaluate with both lists empty returns score 1; with
\* exactly one list empty, whichever, it returns score 0; in both cases the
\* call ends by returning, not by raising.
C15_EmptyInputPolicy ==
    [][ (epc = "call" /\ (predicted = << >> \/ reference = << >>))
          => /\ epc' = "returned"
             /\ eval_result'.score =
                   IF predicted = << >> /\ reference = << >> THEN FracOne ELSE FracZero ]_vars

\* C15 witness: evaluate returned 0 for a non-empty predicted list against an
\* empty reference.
C15_Witness ==
    /\ epc = "returned"
    /\ predicted # << >>
    /\ reference = << >>
    /\ eval_result.score = FracZero

\* The list without its element at position i.
Without(sq, i) == SubSeq(sq, 1, i - 1) \o SubSeq(sq, i + 1, Len(sq))

\* The rearrangements of a list: any element first, then a rearrangement of
\* the others.
RECURSIVE Rearrangements(_)
Rearrangements(sq) ==
    IF sq = << >> THEN { << >> }
    ELSE UNION { { << sq[i] >> \o rest : rest \in Rearrangements(Without(sq, i)) } :
                   i \in 1..Len(sq) }

\* The five fields of a ToolCallAccuracyResult.
ResultFields(r) ==
    << r.score, r.sequence_aligned, r.arg_accuracy, r.matched_tools, r.total_tools >>

Swapped(pred, ref) ==
    /\ Len(pred) = 2
    /\ Len(ref) = 2
    /\ pred[1] = ref[2]
    /\ pred[2] = ref[1]
    /\ pred[1] # pred[2]

\* C16: with strict_order false the order of the lists does not matter. Every
\* rearrangement of predicted with every rearrangement of reference is scored
\* with the same score, sequence_aligned, arg_accuracy, matched_tools and
\* total_tools; two calls present in both lists but swapped are aligned.
C16_PermutationInvariance ==
    (epc = "returned" /\ ~strict_order)
        => /\ \A pr \in Rearrangements(predicted) \X Rearrangements(reference) :
                 ResultFields(Evaluate(FALSE, pr[1], pr[2])) = ResultFields(eval_result)
           /\ Swapped(predicted, reference) => eval_result.sequence_aligned

\* C16 witness: two calls of one name with different arguments, swapped between
\* the lists, scored in full under flexible order.
C16_Witness ==
    /\ epc = "returned"
    /\ ~strict_order
    /\ Swapped(predicted, reference)
    /\ predicted[1].name = predicted[2].name
    /\ eval_result.sequence_aligned
    /\ eval_result.score = FracOne

\* ---------------------------------------------------- get_answers, continued
IsInfix(part, whole) ==
    \E k \in 0..(Len(whole) - Len(part)) : SubSeq(whole, k + 1, k + Len(part)) = part

\* An entry of a choices list that is an object with a delta mapping.
ExposesDelta(ch) == IsDict(ch) /\ IsDict(JGet(ch, "delta"))

\* A parsed value of none of the four text shapes; a choices list none of
\* whose entries is an object with a delta mapping counts as none.
NoTextShape(obj) ==
    /\ ~Shape1(obj)
    /\ ~Shape2(obj)
    /\ ~Shape4(obj)
    /\ Shape3(obj)
         => \A n \in 1..Len(JGet(obj, "choices").m) :
               ~ExposesDelta(JGet(obj, "choices").m[n].v)

UnrecognisedParsed(parsed) == parsed.ok /\ NoTextShape(parsed.val)

\* The line is JSON of none of the text shapes.
UnrecognisedLine(line) ==
    /\ line # << >>
    /\ Head(line) \in { LBrace, "[" }
    /\ UnrecognisedParsed(JsonLoads(line))

\* C17: a line whose JSON value is of none of the four text shapes, a choices
\* list of entries without a delta mapping included, is dropped: reading it
\* raises no exception, it appends nothing to the collected text, and its
\* content is not part of the returned text.
C17_UnrecognisedDropped ==
    /\ (Len(seen) > 0 /\ UnrecognisedLine(Payload(LastSeen))) => lpc # "raised"
    /\ (\A i \in 1..Len(seen) : UnrecognisedLine(Payload(seen[i]))) => collected = << >>
    /\ lpc = "returned"
         => \A i \in 1..Len(seen) :
               UnrecognisedLine(Payload(seen[i])) => ~IsInfix(Payload(seen[i]), answer)

NotJson(parsed) == ~parsed.ok

\* The payload is text: not empty, not the sentinel, and not a JSON value.
LiteralPayload(line) ==
    /\ line # << >>
    /\ line # DoneSentinel
    /\ NotJson(JsonLoads(line))

\* C18: a line read before collection ended whose payload is not the sentinel
\* and does not parse as JSON is appended to the collected text as one literal
\* fragment, the payload as it stands; it is not dropped and reading goes on.
C18_NonJsonAppended ==
    [][ (lpc = "reading" /\ Len(seen') = Len(seen) + 1
            /\ LiteralPayload(Payload(seen'[Len(seen')])))
          => /\ collected' = Append(collected, Payload(seen'[Len(seen')]))
             /\ lpc' = "reading" ]_vars

\* C18 witness: a plain line and then a line that opens a brace without being
\* JSON were both appended as they stand.
C18_Witness ==
    /\ lpc = "reading"
    /\ Len(seen) = 2
    /\ collected = << << "hi" >>, << LBrace, "hi" >> >>

\* The fragments one after the other, nothing between them.
RECURSIVE Concatenated(_)
Concatenated(parts) ==
    IF parts = << >> THEN << >> ELSE Head(parts) \o Concatenated(Tail(parts))

IsPrefix(a, b) == Len(a) <= Len(b) /\ SubSeq(b, 1, Len(a)) = a

\* C19: when at least one fragment was extracted the returned text is the
\* concatenation of the extracted fragments in the order their lines arrived:
\* fragments are only ever added at the end of those of earlier lines, and the
\* text returned is all of them in that order with nothing in between.
C19_ConcatenationInOrder ==
    /\ [][IsPrefix(collected, collected')]_vars
    /\ []((lpc = "returned" /\ collected # << >>) => answer = Concatenated(collected))

\* C19 witness: a returned text made of at least three fragments, the first
\* two different, that came from more than one line.
C19_Witness ==
    /\ lpc = "returned"
    /\ Len(seen) >= 2
    /\ Len(collected) >= 3
    /\ collected[1] # collected[2]
    /\ answer = collected[1] \o collected[2] \o Concatenated(SubSeq(collected, 3, Len(collected)))

\* The lines one per line: a newline between consecutive lines.
RECURSIVE LineJoined(_)
LineJoined(parts) ==
    IF parts = << >> THEN << >>
    ELSE IF Len(parts) = 1 THEN Head(parts)
    ELSE Head(parts) \o << Newline >> \o LineJoined(Tail(parts))

\* C20: if no fragment was recognised by the end of collection the returned
\* text is all the raw lines seen, each as it was received, put together
\* (directly, or with the line breaks between them); with a fragment
\* recognised the fallback is not taken and the fragments are returned.
C20_RawLinesFallback ==
    lpc = "returned"
        => IF collected = << >>
           THEN answer \in { Concatenated(seen), LineJoined(seen) }
           ELSE answer = Concatenated(collected)

\* The positions of the lines seen whose payload is the sentinel.
SentinelPositions == { i \in 1..Len(seen) : Payload(seen[i]) = DoneSentinel }

\* C21: once a sentinel line has been read collection ends at once with what
\* was accumulated: no later line is read, and the text returned is the one
\* returned for the body cut after the sentinel, so two bodies that agree up
\* to and including the sentinel give the same result.
C21_NothingAfterSentinel ==
    \A i \in SentinelPositions :
        /\ i = Len(seen)
        /\ lpc = "returned"
        /\ answer = GetAnswers(SubSeq(seen, 1, i)).answer

\* C22: a non-empty list scored against itself is perfect in both ordering
\* modes: score 1, sequence_aligned true, arg_accuracy 1, and matched_tools =
\* total_tools = the length of the list.
C22_SelfScorePerfect ==
    (epc = "returned" /\ predicted = reference /\ predicted # << >>)
        => /\ eval_result.score = FracOne
           /\ eval_result.sequence_aligned
           /\ eval_result.arg_accuracy = FracOne
           /\ eval_result.matched_tools = Len(predicted)
           /\ eval_result.total_tools = Len(predicted)

\* C22 witness: a list of three calls, one without arguments and two that
\* differ, scored against itself under flexible order.
C22_Witness ==
    /\ epc = "returned"
    /\ ~strict_order
    /\ predicted = reference
    /\ Len(predicted) = 3
    /\ \E i \in 1..3 : predicted[i].args = << >>
    /\ predicted[1] # predicted[2]
    /\ eval_result.matched_tools = 3

\* C23: evaluate emits the length-mismatch diagnostic exactly when
\* len(predicted) differs from len(reference), and returns a result either way.
C23_LengthMismatchWarning ==
    epc = "returned" => (eval_result.warned <=> Len(predicted) # Len(reference))

\* ------------------------------------------------- StreamDemux, the example
\* The nested object {"a": {"b": 1}} as a parsed value.
NestedObject ==
    JObj(<< [k |-> << "a" >>,
             v |-> JObj(<< [k |-> << "b" >>, v |-> JNum(<< "1" >>)] >>)] >>)

HelloFinished == pc = "done" /\ input = HelloStream /\ pos = Len(input)

C25_MismatchScoresZero ==
    epc = "returned"
        => /\ Len(predicted) # Len(reference)
                => /\ ~eval_result.sequence_aligned
                   /\ eval_result.score = FracZero
                   /\ metric_score = FracZero
           /\ eval_result.score # FracZero
                => /\ Len(predicted) = Len(reference)
                   /\ predicted # << >> => coverage = FracOne

\* C25 witness: a flexible-order run on lists of lengths 1 and 2 that share
\* their first name and score a non-zero argument accuracy, yet score 0.
C25_Witness ==
    /\ epc = "returned"
    /\ ~strict_order
    /\ Len(predicted) = 1
    /\ Len(reference) = 2
    /\ eval_result.arg_accuracy # FracZero
    /\ coverage = Frac(1, 2)
    /\ eval_result.score = FracZero

\* ------------------------------------------------- evaluate, relaxing order
\* What evaluate() returns for the lists of this state in each ordering mode.
StrictResult == Evaluate(TRUE, predicted, reference)
FlexibleResult == Evaluate(FALSE, predicted, reference)

\* C26: relaxing the order never lowers the result: lists that are
\* sequence_aligned with strict_order = true are sequence_aligned with
\* strict_order = false, and the score with strict_order = false is at least
\* the score with strict_order = true.
C26_RelaxingNeverLowers ==
    epc = "returned"
        => /\ StrictResult.sequence_aligned => FlexibleResult.sequence_aligned
           /\ FracLeq(StrictResult.score, FlexibleResult.score)

\* ------------------------------------------------- the two scorer variants
\* C27: for every pair of lists and each value of strict_order,
\* ToolCallAccuracyMetric._evaluate returns the number that
\* ToolCallAccuracy.evaluate returns as its score.
C27_VariantsAgree ==
    epc = "returned" => metric_score = eval_result.score

\* C27 witness: both variants return 1/2 for two non-empty lists of equal
\* length compared in flexible order.
C27_Witness ==
    /\ epc = "returned"
    /\ ~strict_order
    /\ Len(predicted) = 2
    /\ Len(reference) = 2
    /\ metric_score = Frac(1, 2)
    /\ eval_result.score = Frac(1, 2)

\* ------------------------------------------------- /chat, memory per session
\* The messages of the request numbered i.
MessagesOf(i) == { HumanMessage(served[i].input, i), AIMessage(i) }
HistoryMessages == { history[j] : j \in 1..Len(history) }

\* C28: the latest /chat request, with session_id s, was answered with a
\* history that contains the human and AI messages of every earlier request
\* with the same s and no message of a request with another session_id.
C28_MemoryPerSession ==
    cpc = "served"
        => /\ \A i \in 1..(Len(served) - 1) :
                 served[i].session_id = served[Len(served)].session_id
                     => MessagesOf(i) \subseteq HistoryMessages
           /\ \A m \in HistoryMessages :
                 served[m.req].session_id = served[Len(served)].session_id

\* ------------------------------------------------- _compare_args, extra keys
\* The predicted arguments without the keys that the reference does not have.
WithoutExtras(pred_args, ref_args) ==
    SelectSeq(pred_args, LAMBDA a : HasKey(ref_args, a.k))

\* The pair compared at position i: the lists as evaluate() compares them.
ComparedPredicted == Ordered(strict_order, predicted)
ComparedReference == Ordered(strict_order, reference)

\* C29: for a compared pair with the same name, predicted keys that are absent
\* from the reference do not change the pair's accuracy: the score evaluate()
\* gave the pair is the score of the predicted arguments without those keys,
\* whether the reference has keys or its argument map is empty.
C29_ExtrasNeverMatter ==
    epc = "returned"
        => \A i \in 1..Len(arg_scores) :
               ComparedPredicted[i].name = ComparedReference[i].name
                   => arg_scores[i] =
                          CompareArgs(WithoutExtras(ComparedPredicted[i].args,
                                                    ComparedReference[i].args),
                                      ComparedReference[i].args)

\* ------------------------------------------------- evaluate, no side effect
\* C30: a call of evaluate(), in either ordering mode, leaves the caller's
\* predicted and reference lists with the same calls in the same order and
\* leaves strict_order as it was, so the same call on what it left behind
\* returns the result it returned.
C30_EvaluateHasNoEffect ==
    [][(epc = "call" /\ epc' = "returned")
          => /\ predicted' = predicted
             /\ reference' = reference
             /\ strict_order' = strict_order
             /\ Evaluate(strict_order', predicted', reference') = eval_result']_vars

\* C30 witness: a flexible-order call returned on lists that sorting reorders,
\* and the lists are still in the caller's order.
C30_Witness ==
    /\ epc = "returned"
    /\ ~strict_order
    /\ Len(predicted) = 2
    /\ Len(reference) = 2
    /\ predicted # SortedCalls(predicted)
    /\ reference # SortedCalls(reference)
    /\ eval_result.score = FracOne

====
